---------------------------- MODULE Spec2Model ----------------------------
(***************************************************************************)
(* Model of the optimizer of HomebrewNLP-MTF (src/src/optimizer/__init__.py)*)
(*                                                                         *)
(*   SpecGamma : the MGDA blend coefficient computed by get_optimizer      *)
(*               (lines 117-132) from the three accumulated inner products.*)
(*   SpecStep  : a run of training steps on one trainable variable, each   *)
(*               step one get_optimizer call in "accumulate" or update     *)
(*               mode followed by the execution of the returned update     *)
(*               operations (gradient_accumulation, update).               *)
(*   SpecOpt   : one get_optimizer call on an operation graph: the loop    *)
(*               over the loss heads, the forward scan, the reverse        *)
(*               traversal operation by operation, and the update          *)
(*               operations appended for the variables gradients() yields. *)
(*   SpecSchedule : the step indicator and the effective betas that      *)
(*               get_optimizer derives from manual_step (lines 98-104),    *)
(*               call after call with manual_step counting up.             *)
(*   SpecVariance : the target variance of weight standardisation          *)
(*               (update, lines 65-71) over tensor shapes, next to the     *)
(*               variance tests/variable_test.py expects of orthogonal_var.*)
(*   SpecCapture  : a CapturedObject (src/src/train.py) under capture and  *)
(*               get calls.                                                *)
(*   SpecSplit    : split_files (src/src/inputs.py) called for every slice *)
(*               index of one file set.                                    *)
(*   SpecSkip, SpecSkipFair : the loop of _get_skip_index                  *)
(*               (src/src/inputs.py), iteration by iteration.              *)
(***************************************************************************)
EXTENDS Integers, Sequences, FiniteSets, TLC

VARIABLES
    v1v1,       \* reduce_sum(loss_1__loss_1)                     (line 118)
    v1v2,       \* reduce_sum(loss_1__loss_2)                     (line 119)
    v2v2,       \* reduce_sum(loss_2__loss_2)                     (line 120)
    gamma,      \* the blend coefficient, a Number; NoGamma before (l. 122-132)
    gpc,        \* position of the gamma computation: "idle", "start", "done"
    \* ---- SpecStep ----
    params,         \* ModelParameter: optimizer chain, weight_decay, ...
    var,            \* ctx.var: the trainable variable's name and shape
    value,          \* ctx.var.value, the stored value (all elements equal)
    buffer_exists,  \* the accumulation buffer is in graph.name_to_variable
    lookup_hits,    \* whether full_name (line 170) is the buffer's name
    grad_buffer,    \* the accumulation buffer's content
    opt_state,      \* persistent state of the optimizers, by optimizer name
    grad,           \* the gradient each traversal yields for the variable
    fns,            \* the fn argument of every get_optimizer call so far
    update_ops,     \* the update operations the last call appended
    last,           \* what the last call did (see NoCall)
    \* ---- SpecOpt ----
    operations,     \* loss.graph.operations, in construction order
    trainable,      \* xs: the output tensors of graph.trainable_variables
    loss_list,      \* the loss heads, tensors
    strategy,       \* params.multi_loss_strategy
    fn,             \* the fn argument
    loss_idx,       \* index of the loss head being processed (from 0)
    opc,            \* "idle", "loop", "reverse", "returned"
    loss,           \* the tensor whose gradient the traversal computes
    pos,            \* index of the next operation of operations[::-1]
    downstream,     \* the downstream set
    tensor_to_gradient, \* tensor -> [read, contrib, grad]
    \* ---- SpecSchedule ----
    dtype,             \* params.optimizer_calculation_dtype
    manual_step,       \* the manually incremented global step
    grad_accumulation, \* params.grad_accumulation, the window N
    opt_beta1,         \* params.opt_beta1, a Number
    opt_beta2,         \* params.opt_beta2, a Number
    step,              \* the step indicator of the last call (line 98)
    mstep,             \* 1 - step                                 (line 102)
    beta1,             \* the beta1 handed to the optimizers       (line 103)
    beta2,             \* the beta2 handed to the optimizers       (line 104)
    spc,               \* "call": get_optimizer is due; "ran": it has run
    \* ---- SpecVariance ----
    fan_in_size,       \* product of the sizes of get_fan_in(params, var)
    size,              \* product of the sizes of var.shape.dims
    scale_by_depth,    \* params.scale_by_depth
    n_blocks,          \* params.n_blocks, the depth of the network
    variance,          \* the target variance of line 69-71, a Number
    vpc,               \* "shape": not computed yet; "done": computed
    \* ---- SpecCapture ----
    _object,           \* CapturedObject._object
    _captured,         \* CapturedObject._captured
    calls,             \* the calls made so far, each with its outcome
    \* ---- SpecSplit ----
    filenames,         \* what tf.io.gfile.glob(path) matches, a set
    seed,              \* the seed argument
    slice_count,       \* the slice_count argument
    shuffled,          \* the order random.shuffle gives under the seed
    slices,            \* slice_index -> the list returned, once called
    split_raised,      \* a call raised ValueError
    \* ---- SpecSkip ----
    all_files,         \* the files: [named, stored] document counts
    n_batches,         \* the n_batches argument
    count,             \* index of the file of the current iteration
    prev_cumsum,       \* line 391
    cumsum,            \* lines 392-398
    global_n_documents, \* line 395; NoCount while None
    skip_idx,          \* the index returned; NoCount while unbound
    remainder,         \* the remainder returned; NoCount while unbound
    kpc                \* "loop", "returned", "idle"

gammaVars == <<v1v1, v1v2, v2v2, gamma, gpc>>

stepVars == <<params, var, value, buffer_exists, lookup_hits, grad_buffer,
              opt_state, grad, fns, update_ops, last>>

optVars == <<operations, trainable, loss_list, strategy, fn, loss_idx, opc,
             loss, pos, downstream, tensor_to_gradient>>

captureVars == <<_object, _captured, calls>>

splitVars == <<filenames, seed, slice_count, shuffled, slices, split_raised>>

skipVars == <<all_files, n_batches, count, prev_cumsum, cumsum, global_n_documents,
              skip_idx, remainder, kpc>>

ioVars == <<captureVars, splitVars, skipVars>>

varianceVars == <<fan_in_size, size, scale_by_depth, n_blocks, variance, vpc>>

schedVars == <<dtype, manual_step, grad_accumulation, opt_beta1, opt_beta2,
               step, mstep, beta1, beta2, spc>>

vars == <<v1v1, v1v2, v2v2, gamma, gpc, params, var, value, buffer_exists,
          lookup_hits, grad_buffer, opt_state, grad, fns, update_ops, last,
          operations, trainable, loss_list, strategy, fn, loss_idx, opc,
          loss, pos, downstream, tensor_to_gradient,
          dtype, manual_step, grad_accumulation, opt_beta1, opt_beta2,
          step, mstep, beta1, beta2, spc,
          fan_in_size, size, scale_by_depth, n_blocks, variance, vpc,
          _object, _captured, calls,
          filenames, seed, slice_count, shuffled, slices, split_raised,
          all_files, n_batches, count, prev_cumsum, cumsum, global_n_documents,
          skip_idx, remainder, kpc>>

(***************************************************************************)
(* Bounds of the model.                                                    *)
(***************************************************************************)
MaxDot == 4

MaxSteps == 4

MaxOps == 2

MaxHeads == 4
MaxWindow == 3
MaxRun == 6
MaxFan == 4
MaxDepth == 3
MaxCalls == 4
MaxFiles == 4
MaxSlices == 3
MaxList == 2
MaxDocs == 3
MaxBatches == 4

(***************************************************************************)
(* Numbers.  A float scalar is modelled by an exact fraction n/d (d > 0,   *)
(* lowest terms) or one of the non-finite values of float arithmetic:      *)
(* d = 0 and n = 1 / n = -1 is +inf / -inf, d = 0 and n = 0 is NaN.        *)
(***************************************************************************)
Abs(x) == IF x < 0 THEN -x ELSE x

Sign(x) == IF x < 0 THEN -1 ELSE IF x = 0 THEN 0 ELSE 1

RECURSIVE GCD(_, _)
GCD(a, b) == IF b = 0 THEN a ELSE GCD(b, a % b)

Rat(n, d) ==
    LET g == GCD(Abs(n), Abs(d))
    IN  IF d = 0 THEN [n |-> Sign(n), d |-> 0]
        ELSE [n |-> (Sign(d) * n) \div g, d |-> Abs(d) \div g]

R(n) == [n |-> n, d |-> 1]

NaN == [n |-> 0, d |-> 0]

IsNaN(x) == x.d = 0 /\ x.n = 0

IsInf(x) == x.d = 0 /\ x.n # 0

IsFinite(x) == x.d > 0

\* mtf_wrapper.equal on float scalars: NaN equals nothing.
RatEq(a, b) ==
    /\ ~IsNaN(a)
    /\ ~IsNaN(b)
    /\ IF IsFinite(a) /\ IsFinite(b) THEN a.n * b.d = b.n * a.d
       ELSE a = b

RatLeq(a, b) == IsFinite(a) /\ IsFinite(b) /\ a.n * b.d <= b.n * a.d

\* mtf_wrapper.add / the + of two float scalars.
RatAdd(a, b) ==
    IF IsNaN(a) \/ IsNaN(b) THEN NaN
    ELSE IF IsInf(a) /\ IsInf(b) THEN (IF a.n = b.n THEN a ELSE NaN)
    ELSE IF IsInf(a) THEN a
    ELSE IF IsInf(b) THEN b
    ELSE Rat(a.n * b.d + b.n * a.d, a.d * b.d)

\* mtf_wrapper.multiply / a scalar einsum of two factors: 0 * inf is NaN.
RatMul(a, b) ==
    IF IsNaN(a) \/ IsNaN(b) THEN NaN
    ELSE IF IsInf(a) \/ IsInf(b)
         THEN (IF a.n = 0 \/ b.n = 0 THEN NaN
               ELSE [n |-> Sign(a.n) * Sign(b.n), d |-> 0])
    ELSE Rat(a.n * b.n, a.d * b.d)

\* mtf_wrapper.negative
RatNeg(a) == [n |-> -a.n, d |-> a.d]

\* mtf_wrapper.reciprocal: 1 / x with no guard, 1 / 0 is +inf.
Reciprocal(a) ==
    IF IsNaN(a) THEN NaN
    ELSE IF IsInf(a) THEN R(0)
    ELSE IF a.n = 0 THEN [n |-> 1, d |-> 0]
    ELSE Rat(a.d, a.n)

\* utils_mtf.to_fp32 of a boolean tensor
ToFp32(b) == IF b THEN R(1) ELSE R(0)

(***************************************************************************)
(* The blend coefficient of get_optimizer, lines 121-132.                  *)
(***************************************************************************)
MinGammaNum == 1

MinGammaDen == 1000

\* min_gamma = 0.001
MinGamma == Rat(MinGammaNum, MinGammaDen)

\* Mutant of GammaFirst: a strict comparison in the first branch.
GammaFirstStrict(a, b, c) ==
    RatMul(RatAdd(R(1), RatNeg(MinGamma)), ToFp32(b > a))

\* line 122-123: (1 - min_gamma) * [v1v2 >= v1v1]
GammaFirst(a, b, c) ==
    RatMul(RatAdd(R(1), RatNeg(MinGamma)), ToFp32(b >= a))

\* line 124-126: + min_gamma * [v1v2 >= v2v2] * [gamma == 0]
GammaSecond(a, b, c) ==
    LET g == GammaFirst(a, b, c)
    IN  RatAdd(g, RatMul(RatMul(MinGamma, ToFp32(b >= c)), ToFp32(RatEq(g, R(0)))))

\* line 127-132: + (-1) * [gamma == 0] * (v1v2 - v2v2)
\*                 * reciprocal((v1v1 + v2v2) - (-2 * v1v2))
GammaThird(a, b, c) ==
    LET g == GammaSecond(a, b, c)
    IN  RatAdd(g,
               RatMul(RatMul(RatMul(R(-1), ToFp32(RatEq(g, R(0)))),
                             RatAdd(R(b), RatNeg(R(c)))),
                      Reciprocal(RatAdd(RatAdd(R(a), R(c)),
                                        RatNeg(RatMul(R(-2), R(b)))))))

ComputeGamma(a, b, c) == GammaThird(a, b, c)

NoGamma == [n |-> 0, d |-> -1]

(***************************************************************************)
(* SpecGamma: every triple of inner products two gradients can produce     *)
(* (Cauchy-Schwarz: v1v2^2 <= v1v1 * v2v2), then the computation.          *)
(***************************************************************************)
\* The variables of SpecStep, unused by the gamma computation.
CaptureIdle == _object = 0 /\ _captured = FALSE /\ calls = <<>>

SplitIdle ==
    /\ filenames = {} /\ seed = 0 /\ slice_count = 1 /\ shuffled = <<>>
    /\ slices = <<>> /\ split_raised = FALSE

SkipIdle ==
    /\ all_files = <<>> /\ n_batches = 0 /\ count = 0 /\ prev_cumsum = 0
    /\ cumsum = 0 /\ global_n_documents = 0 /\ skip_idx = 0 /\ remainder = 0
    /\ kpc = "idle"

IoIdle == CaptureIdle /\ SplitIdle /\ SkipIdle

VarianceIdle ==
    /\ fan_in_size = 1 /\ size = 1 /\ scale_by_depth = FALSE /\ n_blocks = 1
    /\ variance = R(0) /\ vpc = "idle"

SchedIdle ==
    /\ dtype = "float32" /\ manual_step = 0 /\ grad_accumulation = 1
    /\ opt_beta1 = R(0) /\ opt_beta2 = R(0)
    /\ step = 0 /\ mstep = 0 /\ beta1 = R(0) /\ beta2 = R(0) /\ spc = "idle"

StepIdle ==
    /\ params = <<>> /\ var = <<>> /\ value = 0 /\ buffer_exists = FALSE
    /\ lookup_hits = FALSE /\ grad_buffer = 0 /\ opt_state = <<>>
    /\ grad = 0 /\ fns = <<>> /\ update_ops = <<>> /\ last = <<>>

\* The variables of SpecOpt, unused by the other specifications.
OptIdle ==
    /\ operations = <<>> /\ trainable = {} /\ loss_list = <<>>
    /\ strategy = "linear" /\ fn = "update" /\ loss_idx = 0 /\ opc = "idle"
    /\ loss = 0 /\ pos = 0 /\ downstream = {} /\ tensor_to_gradient = <<>>

DotTriples ==
    {t \in (0..MaxDot) \X (-MaxDot..MaxDot) \X (0..MaxDot) :
        t[2] * t[2] <= t[1] * t[3]}

GammaInit ==
    /\ \E t \in DotTriples : v1v1 = t[1] /\ v1v2 = t[2] /\ v2v2 = t[3]
    /\ gamma = NoGamma
    /\ gpc = "start"
    /\ StepIdle
    /\ OptIdle
    /\ SchedIdle
    /\ VarianceIdle
    /\ IoIdle

MgdaGamma ==
    /\ gpc = "start"
    /\ gamma' = ComputeGamma(v1v1, v1v2, v2v2)
    /\ gpc' = "done"
    /\ UNCHANGED <<v1v1, v1v2, v2v2>>
    /\ UNCHANGED schedVars
    /\ UNCHANGED varianceVars
    /\ UNCHANGED ioVars
    /\ UNCHANGED stepVars
    /\ UNCHANGED optVars

GammaNext == MgdaGamma

SpecGamma == GammaInit /\ [][GammaNext]_vars


(***************************************************************************)
(* SpecStep.  Tensors are modelled by one integer, in tenths (2 is 0.2):   *)
(* the common value of a tensor whose elements are all equal.              *)
(***************************************************************************)
GammaIdle ==
    v1v1 = 0 /\ v1v2 = 0 /\ v2v2 = 0 /\ gamma = NoGamma /\ gpc = "idle"

\* OPTIMIZERS (optimizers.py): the registered optimizer names.
OPTIMIZERS == {"sgd", "adam"}

\* One optimizer of the chain: it consumes and replaces ctx.grad and may own
\* persistent state keyed by its name.  "sgd" scales by the learning rate;
\* "adam" keeps a running first moment and returns it.
OptimizerApply(opt, g, st, lr) ==
    IF opt = "adam"
    THEN [grad |-> st[opt] + g, state |-> [st EXCEPT ![opt] = st[opt] + g],
          ops |-> <<[target |-> "opt_state", kind |-> "assign", val |-> st[opt] + g]>>]
    ELSE [grad |-> g * lr, state |-> st, ops |-> <<>>]

\* Mutant of Chain: an unregistered name is skipped.
RECURSIVE ChainSkipsUnknown(_, _, _, _)
ChainSkipsUnknown(tokens, g, st, lr) ==
    IF tokens = <<>> THEN [grad |-> g, state |-> st, ops |-> <<>>, raised |-> FALSE]
    ELSE IF Head(tokens) \notin OPTIMIZERS
         THEN ChainSkipsUnknown(Tail(tokens), g, st, lr)
    ELSE LET one  == OptimizerApply(Head(tokens), g, st, lr)
             rest == ChainSkipsUnknown(Tail(tokens), one.grad, one.state, lr)
         IN  [rest EXCEPT !.ops = one.ops \o rest.ops]

\* update, lines 41-43: the chain, left to right.  An unregistered name makes
\* OPTIMIZERS[opt] raise (raised = TRUE) and ends the loop.
RECURSIVE Chain(_, _, _, _)
Chain(tokens, g, st, lr) ==
    IF tokens = <<>> THEN [grad |-> g, state |-> st, ops |-> <<>>, raised |-> FALSE]
    ELSE IF Head(tokens) \notin OPTIMIZERS
         THEN [grad |-> g, state |-> st, ops |-> <<>>, raised |-> TRUE]
    ELSE LET one  == OptimizerApply(Head(tokens), g, st, lr)
             rest == Chain(Tail(tokens), one.grad, one.state, lr)
         IN  [rest EXCEPT !.ops = one.ops \o rest.ops]

\* update, lines 48-54: the "large tensor" classification.  var.name is
\* modelled by the set of the substrings tested that it contains.
LargeTensor(p, v) ==
    /\ \/ v.features_used /\ v.ndims > p.n_feature_dims
       \/ ~v.features_used /\ v.ndims >= 2
    /\ v.size > 1
    /\ "embed" \notin v.name
    /\ ("input" \notin v.name \/ "lang_in" \in v.name \/ "vid_in" \in v.name)
    /\ ("output" \notin v.name \/ "lang_out" \in v.name \/ "vid_out" \in v.name)

\* Mutant of Standardise: the value is scaled but not normalised first.
StandardiseScalesOnly(val, target_std) == val * target_std

\* update, lines 65-73 on a tensor whose elements all equal val:
\* val * rsqrt_eps(mean(val^2)) * variance^0.5 = sign(val) * target_std.
Standardise(val, target_std) == Sign(val) * target_std

\* Mutant of FlushBuffer: the buffer is read but not zeroed.
FlushBufferLeavesBuffer(ctx) ==
    IF ctx.attached
    THEN [grad |-> [val |-> ctx.grad_buffer, src |-> {"buffer"}], ops |-> <<>>]
    ELSE [grad |-> ctx.grad, ops |-> <<>>]

\* Mutant of FlushBuffer: the raw gradient is kept and the buffer added to it.
FlushBufferKeepsRaw(ctx) ==
    IF ctx.attached
    THEN [grad |-> [val |-> ctx.grad.val + ctx.grad_buffer,
                    src |-> ctx.grad.src \cup {"buffer"}],
          ops  |-> <<[target |-> "grad_buffer", kind |-> "assign", val |-> 0]>>]
    ELSE [grad |-> ctx.grad, ops |-> <<>>]

\* update, lines 37-39: with a buffer attached ctx.grad is replaced by the
\* buffer's content and the buffer is zeroed.  src records where the value
\* of ctx.grad comes from: the step's raw gradient, the buffer.
FlushBuffer(ctx) ==
    IF ctx.attached
    THEN [grad |-> [val |-> ctx.grad_buffer, src |-> {"buffer"}],
          ops  |-> <<[target |-> "grad_buffer", kind |-> "assign", val |-> 0]>>]
    ELSE [grad |-> ctx.grad, ops |-> <<>>]

\* Mutant of Update: the decay term is added before the chain runs.
UpdateDecaysBeforeChain(ctx) ==
    LET p       == ctx.params
        flush   == FlushBuffer(ctx)
        large   == LargeTensor(p, ctx.var)
        decayed == IF large /\ p.weight_decay > 0
                   THEN flush.grad.val + p.weight_decay * ctx.value * p.learning_rate
                   ELSE flush.grad.val
        chain   == Chain(p.optimizer, decayed, ctx.opt_state, p.learning_rate)
        rezero  == IF "rezero" \in ctx.var.name
                   THEN p.rezero_lr_multiplier * chain.grad ELSE chain.grad
        final   == IF ~large \/ ~p.weight_standardisation
                   THEN <<[target |-> "var", kind |-> "assign_sub", val |-> rezero]>>
                   ELSE <<[target |-> "var", kind |-> "assign",
                           val |-> Standardise(ctx.value - rezero, ctx.var.target_std)]>>
    IN  [ops         |-> IF chain.raised THEN flush.ops
                         ELSE flush.ops \o chain.ops \o final,
         chain_input |-> flush.grad,
         raised      |-> chain.raised]

\* Mutant of Update: the final gradient is added to the value.
UpdateAddsGradient(ctx) ==
    LET p       == ctx.params
        flush   == FlushBuffer(ctx)
        chain   == Chain(p.optimizer, flush.grad.val, ctx.opt_state, p.learning_rate)
        rezero  == IF "rezero" \in ctx.var.name
                   THEN p.rezero_lr_multiplier * chain.grad ELSE chain.grad
        large   == LargeTensor(p, ctx.var)
        decayed == IF large /\ p.weight_decay > 0
                   THEN rezero + p.weight_decay * ctx.value * p.learning_rate
                   ELSE rezero
        final   == IF ~large \/ ~p.weight_standardisation
                   THEN <<[target |-> "var", kind |-> "assign_add", val |-> decayed]>>
                   ELSE <<[target |-> "var", kind |-> "assign",
                           val |-> Standardise(ctx.value - decayed, ctx.var.target_std)]>>
    IN  [ops         |-> IF chain.raised THEN flush.ops
                         ELSE flush.ops \o chain.ops \o final,
         chain_input |-> flush.grad,
         raised      |-> chain.raised]

\* update, lines 31-74.  The result: the operations appended to update_ops,
\* the gradient fed to the chain, the optimizers' state, raised.
Update(ctx) ==
    LET p       == ctx.params
        flush   == FlushBuffer(ctx)
        chain   == Chain(p.optimizer, flush.grad.val, ctx.opt_state, p.learning_rate)
        rezero  == IF "rezero" \in ctx.var.name
                   THEN p.rezero_lr_multiplier * chain.grad ELSE chain.grad
        large   == LargeTensor(p, ctx.var)
        decayed == IF large /\ p.weight_decay > 0
                   THEN rezero + p.weight_decay * ctx.value * p.learning_rate
                   ELSE rezero
        final   == IF ~large \/ ~p.weight_standardisation
                   THEN <<[target |-> "var", kind |-> "assign_sub", val |-> decayed]>>
                   ELSE <<[target |-> "var", kind |-> "assign",
                           val |-> Standardise(ctx.value - decayed, ctx.var.target_std)]>>
    IN  [ops         |-> IF chain.raised THEN flush.ops
                         ELSE flush.ops \o chain.ops \o final,
         chain_input |-> flush.grad,
         raised      |-> chain.raised]

\* Mutant of GradientAccumulation: the accumulate step also runs update.
GradientAccumulationUpdates(ctx) ==
    <<[target |-> "grad_buffer", kind |-> "assign_add",
       val |-> ctx.grad.val + ctx.grad_buffer]>> \o Update(ctx).ops

\* gradient_accumulation, lines 27-28:
\* assign_add(grad_buffer, add(grad, identity(grad_buffer))).
GradientAccumulation(ctx) ==
    <<[target |-> "grad_buffer", kind |-> "assign_add",
       val |-> ctx.grad.val + ctx.grad_buffer]>>

\* Executing the update operations combine_assignments returns (line 174).
ApplyOp(x, o) ==
    IF o.kind = "assign" THEN o.val
    ELSE IF o.kind = "assign_add" THEN x + o.val
    ELSE x - o.val

RECURSIVE RunOps(_, _, _)
RunOps(ops, target, x) ==
    IF ops = <<>> THEN x
    ELSE RunOps(Tail(ops), target,
                IF Head(ops).target = target THEN ApplyOp(x, Head(ops)) ELSE x)

\* The "adam" state after the operations ran.
RunOptOps(ops, st) == [st EXCEPT !["adam"] = RunOps(ops, "opt_state", st["adam"])]

\* get_optimizer, lines 165-172: the context of the variable the traversal
\* yields.  The buffer is attached when fn is "accumulate" (created on first
\* use) or when full_name is found in graph.name_to_variable.
Ctx(mode) ==
    [params      |-> params,
     var         |-> var,
     value       |-> value,
     grad        |-> [val |-> grad, src |-> {"raw"}],
     attached    |-> mode = "accumulate" \/ (buffer_exists /\ lookup_hits),
     grad_buffer |-> grad_buffer,
     opt_state   |-> opt_state]

NoCall == [fn |-> "none", attached |-> FALSE, chain_fed |-> FALSE,
           chain_input |-> [val |-> 0, src |-> {}], buffer_before |-> 0,
           raised |-> FALSE]

VarKinds ==
    { [name |-> {}, ndims |-> 3, size |-> 8, features_used |-> TRUE, target_std |-> 3],
      [name |-> {"rezero"}, ndims |-> 0, size |-> 1, features_used |-> FALSE, target_std |-> 3],
      [name |-> {"embed"}, ndims |-> 3, size |-> 8, features_used |-> TRUE, target_std |-> 3],
      [name |-> {}, ndims |-> 2, size |-> 4, features_used |-> TRUE, target_std |-> 3] }

OptimizerChains == {<<"sgd">>, <<"adam">>, <<"adam", "sgd">>, <<"sgd", "bogus">>}

ParamSets ==
    [optimizer : OptimizerChains, weight_decay : {0, 1},
     weight_standardisation : BOOLEAN, rezero_lr_multiplier : {2},
     learning_rate : {1, 2}, n_feature_dims : {2}]

Grads == {-1, 1, 2}

StepInit ==
    /\ GammaIdle
    /\ OptIdle
    /\ SchedIdle
    /\ VarianceIdle
    /\ IoIdle
    /\ params \in ParamSets
    /\ var \in VarKinds
    /\ value = 10
    /\ buffer_exists = FALSE
    /\ lookup_hits \in BOOLEAN
    /\ grad_buffer = 0
    /\ opt_state = [o \in OPTIMIZERS |-> 0]
    /\ grad \in Grads
    /\ fns = <<>>
    /\ update_ops = <<>>
    /\ last = NoCall

CanStep == Len(fns) < MaxSteps /\ ~last.raised

\* One step with fn = "accumulate" (line 173: gradient_accumulation).
StepAccumulate ==
    /\ CanStep
    /\ LET ctx == Ctx("accumulate")
           ops == GradientAccumulation(ctx)
       IN  /\ update_ops' = ops
           /\ value' = RunOps(ops, "var", value)
           /\ grad_buffer' = RunOps(ops, "grad_buffer", grad_buffer)
           /\ opt_state' = RunOptOps(ops, opt_state)
           /\ last' = [fn |-> "accumulate", attached |-> TRUE, chain_fed |-> FALSE,
                       chain_input |-> [val |-> 0, src |-> {}],
                       buffer_before |-> grad_buffer, raised |-> FALSE]
    /\ buffer_exists' = TRUE
    /\ fns' = Append(fns, "accumulate")
    /\ UNCHANGED <<params, var, lookup_hits, grad>>
    /\ UNCHANGED gammaVars
    /\ UNCHANGED schedVars
    /\ UNCHANGED varianceVars
    /\ UNCHANGED ioVars
    /\ UNCHANGED optVars

\* One step with any other fn (line 173: update).  When the chain names an
\* unregistered optimizer the call raises and returns no operations.
StepUpdate ==
    /\ CanStep
    /\ LET ctx == Ctx("update")
           u   == Update(ctx)
           ops == IF u.raised THEN <<>> ELSE u.ops
       IN  /\ update_ops' = ops
           /\ value' = RunOps(ops, "var", value)
           /\ grad_buffer' = RunOps(ops, "grad_buffer", grad_buffer)
           /\ opt_state' = RunOptOps(ops, opt_state)
           /\ last' = [fn |-> "update", attached |-> ctx.attached,
                       chain_fed |-> TRUE, chain_input |-> u.chain_input,
                       buffer_before |-> grad_buffer, raised |-> u.raised]
    /\ fns' = Append(fns, "update")
    /\ UNCHANGED <<params, var, lookup_hits, grad, buffer_exists>>
    /\ UNCHANGED gammaVars
    /\ UNCHANGED schedVars
    /\ UNCHANGED varianceVars
    /\ UNCHANGED ioVars
    /\ UNCHANGED optVars

StepNext == StepAccumulate \/ StepUpdate

SpecStep == StepInit /\ [][StepNext]_vars


(***************************************************************************)
(* SpecOpt.  Tensors are numbered from 1; 0 stands for None.  An operation *)
(* is a record of its input and output tensors, has_gradient, and          *)
(* grad_inputs: the number of inputs of the operations its gradient rule   *)
(* creates (1: one input, the output gradient; 2: also a forward tensor).  *)
(***************************************************************************)
None == 0

SeqToSet(q) == {q[i] : i \in 1..Len(q)}

Operation(k, ins, outs, hg, gi) ==
    [kind |-> k, inputs |-> ins, outputs |-> outs, has_gradient |-> hg,
     grad_inputs |-> gi]

AllOutputs(ops) == UNION {SeqToSet(ops[i].outputs) : i \in 1..Len(ops)}

\* The tensor a newly created operation outputs.
NextId(ops) ==
    1 + (CHOOSE m \in AllOutputs(ops) : \A x \in AllOutputs(ops) : x <= m)

\* tensor.operation
Producer(ops, t) == ops[CHOOSE i \in 1..Len(ops) : t \in SeqToSet(ops[i].outputs)]

Remove(f, x) == [y \in (DOMAIN f) \ {x} |-> f[y]]

\* Mutant of Put: the value is recorded for the tensor after x.
PutNextTensor(f, x, v) ==
    [y \in (DOMAIN f) \cup {x + 1} |-> IF y = x + 1 THEN v ELSE f[y]]

Put(f, x, v) == [y \in (DOMAIN f) \cup {x} |-> IF y = x THEN v ELSE f[y]]

\* Mutant of Scan: the outputs of every operation with a downstream input
\* join the set, gradient-capable or not.
RECURSIVE ScanAnyOperation(_, _, _)
ScanAnyOperation(ops, i, d) ==
    IF i > Len(ops) THEN d
    ELSE ScanAnyOperation(ops, i + 1,
              IF SeqToSet(ops[i].inputs) \cap d # {}
              THEN d \cup SeqToSet(ops[i].outputs) ELSE d)

\* get_optimizer, lines 140-144: the forward scan.
RECURSIVE Scan(_, _, _)
Scan(ops, i, d) ==
    IF i > Len(ops) THEN d
    ELSE Scan(ops, i + 1,
              IF ops[i].has_gradient /\ SeqToSet(ops[i].inputs) \cap d # {}
              THEN d \cup SeqToSet(ops[i].outputs) ELSE d)

DownstreamOf(ops, xs) == Scan(ops, 1, xs)

\* get_optimizer, lines 150-161: the gradients recorded for the outputs of
\* the operation visited; each entry read is counted and deleted when the
\* count equals the number of inputs of the operation that made the gradient.
RECURSIVE CollectGradOutputs(_, _, _, _)
CollectGradOutputs(outs, k, ttg, ops) ==
    IF k > Len(outs) THEN [grad_outputs |-> <<>>, ttg |-> ttg]
    ELSE IF outs[k] \notin DOMAIN ttg
         THEN LET r == CollectGradOutputs(outs, k + 1, ttg, ops)
              IN  [r EXCEPT !.grad_outputs = <<None>> \o r.grad_outputs]
    ELSE LET e    == ttg[outs[k]]
             read == e.read + 1
             ttg1 == IF read = Len(Producer(ops, e.grad).inputs)
                     THEN Remove(ttg, outs[k])
                     ELSE [ttg EXCEPT ![outs[k]].read = read]
             r    == CollectGradOutputs(outs, k + 1, ttg1, ops)
         IN  [r EXCEPT !.grad_outputs = <<e.grad>> \o r.grad_outputs]

\* any(grad_outputs)
AnyGrad(grad_outputs) == \E k \in 1..Len(grad_outputs) : grad_outputs[k] # None

\* Mutant of Skipped: the downstream set is not consulted.
SkippedIgnoresDownstream(op, grad_outputs, d) ==
    \/ ~op.has_gradient
    \/ ~AnyGrad(grad_outputs)

\* get_optimizer, line 163: the operation is skipped.
Skipped(op, grad_outputs, d) ==
    \/ ~op.has_gradient
    \/ ~AnyGrad(grad_outputs)
    \/ SeqToSet(op.inputs) \cap d = {}

\* The operations whose gradient rule one traversal invokes, from the last
\* to the first: an operation contributes to its downstream inputs when it
\* is gradient-capable and one of its outputs has received a gradient.
RECURSIVE ActiveScan(_, _, _, _, _)
ActiveScan(ops, i, need, d, acc) ==
    IF i = 0 THEN acc
    ELSE LET act == /\ ops[i].has_gradient
                    /\ SeqToSet(ops[i].outputs) \cap need # {}
                    /\ SeqToSet(ops[i].inputs) \cap d # {}
         IN  ActiveScan(ops, i - 1,
                        IF act THEN need \cup (SeqToSet(ops[i].inputs) \cap d) ELSE need,
                        d, IF act THEN acc \cup {i} ELSE acc)

Contributors(ops, l, d) == ActiveScan(ops, Len(ops), {l}, d, {})

\* The last expected contributor of tensor t has arrived when operation i
\* is processed.
Finalized(ops, l, d, t, i) ==
    \A j \in Contributors(ops, l, d) : t \in SeqToSet(ops[j].inputs) => j >= i

\* Values of the fn argument; the docstring (lines 85-89) names the last.
FnStrings == {"accumulate", "update", "oijhiojio"}

\* get_optimizer, lines 170-172: the buffer is attached to the context.
BufferAttached(mode, exists, hits) == mode = "accumulate" \/ (exists /\ hits)

\* Mutant of Emit: only the exact string "update" runs update.
EmitUpdateByName(mode, t, idx, attached, ps, vd) ==
    LET ctx == [params |-> ps, var |-> vd, value |-> 0,
                grad |-> [val |-> 1, src |-> {"raw"}], attached |-> attached,
                grad_buffer |-> 0, opt_state |-> [o \in OPTIMIZERS |-> 0]]
        ops == IF mode = "update" THEN Update(ctx).ops
               ELSE GradientAccumulation(ctx)
    IN  [k \in 1..Len(ops) |->
            [var |-> t, loss_idx |-> idx, target |-> ops[k].target,
             kind |-> ops[k].kind, val |-> ops[k].val]]

\* get_optimizer, lines 170-173, for the variable with output tensor t that
\* gradients() yields: the operations appended to update_ops.
Emit(mode, t, idx, attached, ps, vd) ==
    LET ctx == [params |-> ps, var |-> vd, value |-> 0,
                grad |-> [val |-> 1, src |-> {"raw"}], attached |-> attached,
                grad_buffer |-> 0, opt_state |-> [o \in OPTIMIZERS |-> 0]]
        ops == IF mode = "accumulate" THEN GradientAccumulation(ctx)
               ELSE Update(ctx).ops
    IN  [k \in 1..Len(ops) |->
            [var |-> t, loss_idx |-> idx, target |-> ops[k].target,
             kind |-> ops[k].kind, val |-> ops[k].val]]

\* gradients(): under mgda the traversals of the first two loss heads only
\* accumulate the inner products; every other traversal yields the variable.
YieldsVariable(mgda, idx) == ~(mgda /\ idx < 2)

\* gradients() (gradients.py) for the operation at index c.i: one gradient
\* per input from the operation's gradient rule, added into the input's
\* entry of tensor_to_gradient; a trainable variable whose last contribution
\* has arrived is yielded and lines 170-173 run for it.
\* st = [ops, ttg, uops]: operations, tensor_to_gradient, update_ops.
RECURSIVE Gradients(_, _, _)
Gradients(c, j, st) ==
    IF j > Len(c.op.inputs) THEN st
    ELSE
    LET inp   == c.op.inputs[j]
        gid   == NextId(st.ops)
        ops1  == Append(st.ops,
                        Operation("gradient",
                                  IF c.op.grad_inputs = 1 THEN <<c.dy>> ELSE <<c.dy, inp>>,
                                  <<gid>>, TRUE, 1))
    IN  IF inp \notin c.downstream
        THEN Gradients(c, j + 1, [st EXCEPT !.ops = ops1])
        ELSE
        LET had   == inp \in DOMAIN st.ttg
            ops2  == IF had
                     THEN Append(ops1, Operation("add", <<st.ttg[inp].grad, gid>>,
                                                 <<gid + 1>>, TRUE, 1))
                     ELSE ops1
            entry == IF had
                     THEN [read |-> st.ttg[inp].read,
                           contrib |-> st.ttg[inp].contrib + 1, grad |-> gid + 1]
                     ELSE [read |-> 0, contrib |-> 1, grad |-> gid]
            yield == /\ inp \in c.xs
                     /\ Finalized(c.ops0, c.loss, c.downstream, inp, c.i)
                     /\ YieldsVariable(c.mgda, c.loss_idx)
            new   == IF yield
                     THEN Emit(c.fn, inp, c.loss_idx, c.attached, c.params, c.var)
                     ELSE <<>>
            ops3  == ops2 \o [k \in 1..Len(new) |->
                                 Operation("assign", <<entry.grad>>, <<>>, FALSE, 0)]
        IN  Gradients(c, j + 1,
                      [ops |-> ops3, ttg |-> Put(st.ttg, inp, entry),
                       uops |-> st.uops \o new])


\* The first gradient among grad_outputs.
FirstGrad(grad_outputs) ==
    grad_outputs[CHOOSE k \in 1..Len(grad_outputs) :
                    /\ grad_outputs[k] # None
                    /\ \A m \in 1..(k - 1) : grad_outputs[m] = None]

\* get_optimizer, lines 112-114 and 118-120: the tensors bound to
\* loss_1__loss_1, loss_1__loss_2, loss_2__loss_2 are the zero constants of
\* lines 112-114 when line 118 reduces them: get_optimizer never rebinds the
\* names, and OptimizerCtx receives the tensors, not the names.
ReducedDots == <<0, 0, 0>>

\* get_optimizer, line 134: the operations of
\* add(multiply(loss_list[0], gamma), multiply(loss_list[1], 1 - gamma)).
BlendOps(ops, l0, l1) ==
    LET g == NextId(ops)
    IN  << Operation("gamma", <<>>, <<g>>, TRUE, 0),
           Operation("multiply", <<l0, g>>, <<g + 1>>, TRUE, 2),
           Operation("multiply", <<l1, g>>, <<g + 2>>, TRUE, 2),
           Operation("add", <<g + 1, g + 2>>, <<g + 3>>, TRUE, 1) >>

\* ---- the graphs and configurations of SpecOpt ----
LeafOps ==
    << Operation("variable", <<>>, <<1>>, TRUE, 0),
       Operation("variable", <<>>, <<2>>, TRUE, 0),
       Operation("input", <<>>, <<3>>, FALSE, 0) >>

OpShapes == {<<TRUE, 1>>, <<TRUE, 2>>, <<FALSE, 0>>}

\* The k-th operation of a generated graph: one or two earlier tensors in.
GenOps(k) ==
    LET avail == 1..(Len(LeafOps) + k - 1)
        ins   == {<<a>> : a \in avail}
                    \cup {<<a, b>> : a \in avail, b \in avail}
    IN  {Operation("op", i, <<Len(LeafOps) + k>>, h[1], h[2]) :
            i \in {q \in ins : Len(q) = 1 \/ q[1] < q[2]}, h \in OpShapes}

RECURSIVE GenGraphs(_)
GenGraphs(k) ==
    IF k = 0 THEN {LeafOps}
    ELSE {Append(g, o) : g \in GenGraphs(k - 1), o \in GenOps(k)}

GenConfigs ==
    {[operations |-> g, loss_list |-> <<l>>, strategy |-> "linear", fn |-> f,
      buffers |-> FALSE] :
        g \in GenGraphs(MaxOps),
        l \in (Len(LeafOps) + 1)..(Len(LeafOps) + MaxOps),
        f \in {"accumulate", "update"}}

\* A graph with two loss tensors, 5 and 8, and an operation of two outputs.
HeadGraph ==
    LeafOps \o
    << Operation("op", <<1, 3>>, <<4>>, TRUE, 2),
       Operation("op", <<2, 4>>, <<5>>, TRUE, 2),
       Operation("op", <<4>>, <<6, 7>>, TRUE, 1),
       Operation("op", <<6>>, <<8>>, TRUE, 1) >>

RECURSIVE HeadLists(_)
HeadLists(n) ==
    IF n = 0 THEN {<<>>}
    ELSE {Append(q, l) : q \in HeadLists(n - 1), l \in {5, 8}}

HeadConfigs ==
    {[operations |-> HeadGraph, loss_list |-> q, strategy |-> m, fn |-> f,
      buffers |-> b] :
        q \in UNION {HeadLists(n) : n \in 1..MaxHeads},
        m \in {"linear", "mgda"},
        f \in FnStrings,
        b \in BOOLEAN}

OptParams ==
    [optimizer |-> <<"adam">>, weight_decay |-> 0,
     weight_standardisation |-> FALSE, rezero_lr_multiplier |-> 2,
     learning_rate |-> 1, n_feature_dims |-> 2]

OptVar ==
    [name |-> {}, ndims |-> 3, size |-> 8, features_used |-> TRUE, target_std |-> 3]

OptInit ==
    /\ v1v1 = 0 /\ v1v2 = 0 /\ v2v2 = 0 /\ gamma = NoGamma /\ gpc = "idle"
    /\ \E c \in GenConfigs \cup HeadConfigs :
          /\ operations = c.operations
          /\ loss_list = c.loss_list
          /\ strategy = c.strategy
          /\ fn = c.fn
          /\ buffer_exists = c.buffers
          /\ lookup_hits = c.buffers
    /\ SchedIdle
    /\ VarianceIdle
    /\ IoIdle
    /\ trainable = {1, 2}
    /\ loss_idx = 0
    /\ opc = "loop"
    /\ loss = None
    /\ pos = 0
    /\ downstream = {}
    /\ tensor_to_gradient = <<>>
    /\ params = OptParams
    /\ var = OptVar
    /\ update_ops = <<>>
    /\ value = 0 /\ grad_buffer = 0 /\ opt_state = <<>> /\ grad = 0
    /\ fns = <<>> /\ last = <<>>

\* Mutant of ReverseStart: the traversal starts at the end of the graph as
\* it was before the seed gradient was made.
ReverseStartBeforeSeed(ops) == Len(ops) - 1

\* get_optimizer, line 149: operations[::-1] copies the list as it is when
\* the loop starts; the index of the operation visited first.
ReverseStart(ops) == Len(ops)

\* get_optimizer, lines 116-146: the head of one iteration of the loop over
\* loss_list: the blended loss when mgda and loss_idx == 2, the seed
\* gradient, the forward scan, the initial tensor_to_gradient.
StartLoss ==
    /\ opc = "loop"
    /\ loss_idx < Len(loss_list)
    /\ LET blend == strategy = "mgda" /\ loss_idx = 2
           ops1  == IF blend
                    THEN operations \o BlendOps(operations, loss_list[1], loss_list[2])
                    ELSE operations
           l     == IF blend THEN NextId(ops1) - 1 ELSE loss_list[loss_idx + 1]
           lg    == NextId(ops1)
           ops2  == Append(ops1, Operation("constant", <<>>, <<lg>>, TRUE, 0))
       IN  /\ operations' = ops2
           /\ loss' = l
           /\ downstream' = DownstreamOf(ops2, trainable)
           /\ tensor_to_gradient' = (l :> [read |-> 0, contrib |-> 0, grad |-> lg])
           /\ pos' = ReverseStart(ops2)
           /\ IF blend
              THEN /\ v1v1' = ReducedDots[1]
                   /\ v1v2' = ReducedDots[2]
                   /\ v2v2' = ReducedDots[3]
                   /\ gamma' = ComputeGamma(ReducedDots[1], ReducedDots[2], ReducedDots[3])
                   /\ gpc' = "done"
              ELSE UNCHANGED gammaVars
    /\ opc' = "reverse"
    /\ UNCHANGED <<trainable, loss_list, strategy, fn, loss_idx>>
    /\ UNCHANGED stepVars
    /\ UNCHANGED schedVars
    /\ UNCHANGED varianceVars
    /\ UNCHANGED ioVars

\* get_optimizer, lines 149-173: one operation of operations[::-1].
VisitOp ==
    /\ opc = "reverse"
    /\ pos >= 1
    /\ LET op  == operations[pos]
           col == CollectGradOutputs(op.outputs, 1, tensor_to_gradient, operations)
           c   == [op |-> op, i |-> pos, dy |-> FirstGrad(col.grad_outputs),
                   downstream |-> downstream, xs |-> trainable, ops0 |-> operations,
                   loss |-> loss, loss_idx |-> loss_idx, fn |-> fn,
                   mgda |-> strategy = "mgda",
                   attached |-> BufferAttached(fn, buffer_exists, lookup_hits),
                   params |-> params, var |-> var]
           st  == IF Skipped(op, col.grad_outputs, downstream)
                  THEN [ops |-> operations, ttg |-> col.ttg, uops |-> update_ops]
                  ELSE Gradients(c, 1, [ops |-> operations, ttg |-> col.ttg,
                                        uops |-> update_ops])
       IN  /\ operations' = st.ops
           /\ tensor_to_gradient' = st.ttg
           /\ update_ops' = st.uops
           /\ buffer_exists' = (buffer_exists
                                \/ (fn = "accumulate" /\ Len(st.uops) > Len(update_ops)))
    /\ pos' = pos - 1
    /\ UNCHANGED <<trainable, loss_list, strategy, fn, loss_idx, opc, loss, downstream>>
    /\ UNCHANGED <<params, var, value, lookup_hits, grad_buffer, opt_state, grad,
                   fns, last>>
    /\ UNCHANGED gammaVars
    /\ UNCHANGED schedVars
    /\ UNCHANGED varianceVars
    /\ UNCHANGED ioVars

\* The end of the reverse loop: the next loss head.
EndTraversal ==
    /\ opc = "reverse"
    /\ pos = 0
    /\ loss_idx' = loss_idx + 1
    /\ opc' = "loop"
    /\ UNCHANGED <<operations, trainable, loss_list, strategy, fn, loss, pos,
                   downstream, tensor_to_gradient>>
    /\ UNCHANGED stepVars
    /\ UNCHANGED gammaVars
    /\ UNCHANGED schedVars
    /\ UNCHANGED varianceVars
    /\ UNCHANGED ioVars

\* get_optimizer, line 174: the update operations are returned.
Return ==
    /\ opc = "loop"
    /\ loss_idx = Len(loss_list)
    /\ opc' = "returned"
    /\ UNCHANGED <<operations, trainable, loss_list, strategy, fn, loss_idx, loss,
                   pos, downstream, tensor_to_gradient>>
    /\ UNCHANGED stepVars
    /\ UNCHANGED gammaVars
    /\ UNCHANGED schedVars
    /\ UNCHANGED varianceVars
    /\ UNCHANGED ioVars

OptNext == StartLoss \/ VisitOp \/ EndTraversal \/ Return

SpecOpt == OptInit /\ [][OptNext]_vars


(***************************************************************************)
(* SpecSchedule.  get_optimizer, lines 98-104: the step indicator and the  *)
(* betas, computed in params.optimizer_calculation_dtype.  The betas are   *)
(* exact rationals here; the cast of the step counter rounds as the dtype  *)
(* does.                                                                   *)
(***************************************************************************)
Dtypes == {"bfloat16", "float32"}

\* Bits of the significand of a dtype.
MantissaBits(d) == IF d = "bfloat16" THEN 8 ELSE 24

RECURSIVE Pow2(_)
Pow2(k) == IF k = 0 THEN 1 ELSE 2 * Pow2(k - 1)

\* The spacing of the dtype's values around the integer x >= 0.
RECURSIVE Ulp(_, _)
Ulp(x, d) == IF x < Pow2(MantissaBits(d)) THEN 1 ELSE 2 * Ulp(x \div 2, d)

\* tf.cast(x, dtype) of an integer x >= 0: round to nearest, ties to even.
CastToDtype(x, d) ==
    LET u == Ulp(x, d)
        q == x \div u
        r == x % u
    IN  IF 2 * r < u THEN q * u
        ELSE IF 2 * r > u THEN (q + 1) * u
        ELSE IF q % 2 = 0 THEN q * u ELSE (q + 1) * u

\* Mutant of StepIndicator: the counter is not advanced by one.
StepIndicatorOfStep(ms, n, d) == IF CastToDtype(ms, d) % n = 0 THEN 1 ELSE 0

\* Lines 98-100: cast(equal(mod(cast(manual_step + 1), grad_accumulation), 0)).
StepIndicator(ms, n, d) == IF CastToDtype(ms + 1, d) % n = 0 THEN 1 ELSE 0

\* Lines 103-104: add(1, multiply(neg_step, 1 - opt_beta)).
EffectiveBeta(st, b) == RatAdd(R(1), RatMul(R(0 - st), RatAdd(R(1), RatNeg(b))))

\* The counter values a run starts from: 0, and just below the first
\* integer the dtype cannot hold.
StartSteps(d) == {0, Pow2(MantissaBits(d)) - 3}

Betas == {Rat(9, 10), Rat(1, 2)}

SchedInit ==
    /\ GammaIdle /\ StepIdle /\ OptIdle /\ VarianceIdle /\ IoIdle
    /\ dtype \in Dtypes
    /\ manual_step \in StartSteps(dtype)
    /\ grad_accumulation \in 1..MaxWindow
    /\ opt_beta1 \in Betas
    /\ opt_beta2 \in Betas
    /\ step = 0 /\ mstep = 0 /\ beta1 = R(0) /\ beta2 = R(0)
    /\ spc = "call"

\* get_optimizer, lines 98-104.
GetOptimizerSchedule ==
    /\ spc = "call"
    /\ LET st == StepIndicator(manual_step, grad_accumulation, dtype)
       IN  /\ step' = st
           /\ mstep' = 1 + (0 - st)
           /\ beta1' = EffectiveBeta(st, opt_beta1)
           /\ beta2' = EffectiveBeta(st, opt_beta2)
    /\ spc' = "ran"
    /\ UNCHANGED <<dtype, manual_step, grad_accumulation, opt_beta1, opt_beta2>>
    /\ UNCHANGED <<gammaVars, stepVars, optVars, varianceVars, ioVars>>

\* The training loop advances manual_step between two calls.
IncrementStep ==
    /\ spc = "ran"
    /\ \E s \in StartSteps(dtype) : s <= manual_step /\ manual_step < s + MaxRun
    /\ manual_step' = manual_step + 1
    /\ spc' = "call"
    /\ UNCHANGED <<dtype, grad_accumulation, opt_beta1, opt_beta2, step, mstep,
                   beta1, beta2>>
    /\ UNCHANGED <<gammaVars, stepVars, optVars, varianceVars, ioVars>>

SchedNext == GetOptimizerSchedule \/ IncrementStep

SpecSchedule == SchedInit /\ [][SchedNext]_vars

(***************************************************************************)
(* SpecVariance.  update, lines 65-71, in exact rationals.                 *)
(***************************************************************************)
Max(a, b) == IF a >= b THEN a ELSE b

Min(a, b) == IF a <= b THEN a ELSE b

\* update, lines 68-71:
\* (1 - 1 / max_fan) / size ** 2 + 1 / max_fan - 2 / size + 1 / max_fan,
\* times n_blocks under scale_by_depth.
TargetVariance(f, s, sbd, n) ==
    LET max_fan == Max(f, s \div f)
        v == RatAdd(RatAdd(RatAdd(Rat(max_fan - 1, max_fan * s * s), Rat(1, max_fan)),
                           RatNeg(Rat(2, s))),
                    Rat(1, max_fan))
    IN  IF sbd THEN RatMul(v, R(n)) ELSE v

\* tests/variable_test.py, OrthogonalCheck._target_std, lines 79-88, squared:
\* (min_fan * (1 - min_fan / size) ** 2 + (size - min_fan) * (min_fan / size) ** 2) / size,
\* divided by depth under scale_by_depth.
OrthogonalVariance(f, s, sbd, n) ==
    LET min_fan == Min(s \div f, f)
        v == Rat(min_fan * (s - min_fan) * (s - min_fan)
                    + (s - min_fan) * min_fan * min_fan,
                 s * s * s)
    IN  IF sbd THEN RatMul(v, Rat(1, n)) ELSE v

\* The shapes: the fan-in dimensions are dimensions of the tensor, so the
\* fan-in size divides the size.
VarianceInit ==
    /\ GammaIdle /\ StepIdle /\ OptIdle /\ SchedIdle /\ IoIdle
    /\ fan_in_size \in 1..MaxFan
    /\ \E k \in 1..MaxFan : size = fan_in_size * k
    /\ scale_by_depth \in BOOLEAN
    /\ n_blocks \in 1..MaxDepth
    /\ variance = R(0)
    /\ vpc = "shape"

\* update, lines 66-71.
ComputeVariance ==
    /\ vpc = "shape"
    /\ variance' = TargetVariance(fan_in_size, size, scale_by_depth, n_blocks)
    /\ vpc' = "done"
    /\ UNCHANGED <<fan_in_size, size, scale_by_depth, n_blocks>>
    /\ UNCHANGED <<gammaVars, stepVars, optVars, schedVars, ioVars>>

VarianceNext == ComputeVariance

SpecVariance == VarianceInit /\ [][VarianceNext]_vars

(***************************************************************************)
(* Claims about the target variance (SpecVariance).                        *)
(***************************************************************************)
VarianceDone == vpc = "done"

\* C16: with depth scaling off, for every fan-in size f and size s the
\* target variance of update() equals the variance the orthogonal-variable
\* test asserts for the shape.
C16_VarianceIsOrthogonalVariance ==
    (VarianceDone /\ ~scale_by_depth) =>
        RatEq(variance, OrthogonalVariance(fan_in_size, size, FALSE, n_blocks))

\* C17: with scale_by_depth the target variance of update() is the
\* unscaled one divided by the depth, as the standard deviation of the test
\* is divided by sqrt(depth).
C17_DepthDividesVariance ==
    (VarianceDone /\ scale_by_depth) =>
        RatEq(variance,
              RatMul(TargetVariance(fan_in_size, size, FALSE, n_blocks),
                     Rat(1, n_blocks)))


(***************************************************************************)
(* Claims about the step indicator (SpecSchedule).                         *)
(***************************************************************************)
ScheduleRan == spc = "ran"

LastOfWindow == (manual_step + 1) % grad_accumulation = 0

\* manual_step + 1 is a value of the dtype.
CounterIsExact == CastToDtype(manual_step + 1, dtype) = manual_step + 1

IndicatorFollowsWindow ==
    /\ step = (IF LastOfWindow THEN 1 ELSE 0)
    /\ LastOfWindow => (RatEq(beta1, opt_beta1) /\ RatEq(beta2, opt_beta2))
    /\ ~LastOfWindow => (RatEq(beta1, R(1)) /\ RatEq(beta2, R(1)))

Returned == opc = "returned"

\* The positions of update_ops that assign target tg of variable t.
AssignsOf(t, tg) ==
    {k \in 1..Len(update_ops) : update_ops[k].var = t /\ update_ops[k].target = tg}

UpdatedVars == {update_ops[k].var : k \in 1..Len(update_ops)}

\* The loss of the last traversal is the blend of line 134.
BlendedLoss ==
    /\ loss # None
    /\ Producer(operations, loss).kind = "add"
    /\ \A t \in SeqToSet(Producer(operations, loss).inputs) :
          Producer(operations, t).kind = "multiply"

\* C4: among the update operations one get_optimizer call returns, for any
\* number of loss heads, the value, the accumulation buffer and the
\* optimizer state of each trainable variable are each assigned at most once.
C4_AssignedAtMostOnce ==
    Returned =>
        \A t \in trainable : \A tg \in {"var", "grad_buffer", "opt_state"} :
            Cardinality(AssignsOf(t, tg)) <= 1

\* C5: after the one traversal of a single loss the variables that update
\* (or accumulate) was invoked for are exactly the trainable variables in
\* the downstream set of that loss.
C5_UpdatedAreDownstreamTrainables ==
    (Returned /\ Len(loss_list) = 1 /\ strategy = "linear") =>
        UpdatedVars = trainable \cap downstream

\* C10: under mgda with exactly two loss heads gamma has been computed and
\* the loss of the updates is gamma * loss1 + (1 - gamma) * loss2; with one
\* loss head nothing is blended and that loss is used as it is.
C10_TwoHeadsAreBlended ==
    Returned =>
        /\ (strategy = "mgda" /\ Len(loss_list) = 2) =>
               (gpc = "done" /\ BlendedLoss /\ UpdatedVars # {})
        /\ Len(loss_list) = 1 => (gpc = "idle" /\ loss = loss_list[1])


(***************************************************************************)
(* Claims about the blend coefficient (SpecGamma).                         *)
(***************************************************************************)
OneMinusMinGamma == RatAdd(R(1), RatNeg(MinGamma))

Clamp(x, lo, hi) == IF RatLeq(x, lo) THEN lo ELSE IF RatLeq(hi, x) THEN hi ELSE x

\* The three-branch rule as the specification states it.
ThreeBranchRule(a, b, c) ==
    IF b >= a THEN OneMinusMinGamma
    ELSE IF b >= c THEN MinGamma
    ELSE Clamp(Rat(c - b, a + c - 2 * b), MinGamma, OneMinusMinGamma)

GammaDone == gpc = "done"

EqualGradients == v1v1 = v1v2 /\ v1v2 = v2v2

\* C6: for all accumulated inner products the computed gamma equals the
\* three-branch rule with epsilon = 0.001 (third branch clamped to
\* [epsilon, 1 - epsilon], denominator g1.g1 + g2.g2 - 2 g1.g2).  Stated on
\* the triples for which the computation yields a finite number, so that a
\* violation does not rest on a division by zero.
C6_GammaIsThreeBranchRule ==
    GammaDone /\ IsFinite(gamma) =>
        RatEq(gamma, ThreeBranchRule(v1v1, v1v2, v2v2))

\* C7: for every pair of gradients the computed gamma lies in
\* [epsilon, 1 - epsilon], so the blend is a convex combination.  Stated on
\* the triples for which the computation yields a finite number.
C7_GammaInUnitInterval ==
    GammaDone /\ IsFinite(gamma) =>
        RatLeq(MinGamma, gamma) /\ RatLeq(gamma, OneMinusMinGamma)

C9_FirstBranchIsExact ==
    GammaDone /\ v1v2 >= v1v1 => gamma = OneMinusMinGamma


(***************************************************************************)
(* Claims about gradient accumulation (SpecStep).                          *)
(***************************************************************************)
Stepped == Len(fns') = Len(fns) + 1

\* The last call was in update mode and every call before it accumulated:
\* a window of N = Len(fns) steps that started with a zero buffer.
WindowApplied ==
    /\ Len(fns) >= 2
    /\ last.fn = "update"
    /\ ~last.raised
    /\ \A i \in 1..(Len(fns) - 1) : fns[i] = "accumulate"

Flushed ==
    \E i \in 1..Len(update_ops) :
        update_ops[i].target = "grad_buffer" /\ update_ops[i].kind = "assign"

RawFed == last.chain_fed /\ "raw" \in last.chain_input.src

\* C1: N-1 accumulate steps followed by one update step, from a zero buffer
\* and with a constant per-step gradient g, feed exactly N*g to the update
\* rule chain, and the buffer holds zero right after the apply step.
C1_WindowFeedsNTimesG ==
    WindowApplied =>
        /\ last.chain_input.val = Len(fns) * grad
        /\ grad_buffer = 0

\* C2: a step built with fn = "accumulate" changes nothing but the
\* accumulation buffer, by an addition: no assignment to the variable's
\* stored value is emitted and no optimizer runs (its state is unchanged).
C2_AccumulateOnlyAddsToBuffer ==
    [][Stepped /\ last'.fn = "accumulate" =>
        /\ value' = value
        /\ opt_state' = opt_state
        /\ \A i \in 1..Len(update_ops') :
              /\ update_ops'[i].target = "grad_buffer"
              /\ update_ops'[i].kind = "assign_add"]_vars

C2_Witness ==
    /\ last.fn = "accumulate"
    /\ "adam" \in {params.optimizer[i] : i \in 1..Len(params.optimizer)}
    /\ opt_state["adam"] # 0
    /\ grad_buffer # 0

\* C3: no step both feeds its raw gradient to the chain and flushes the
\* buffer: with a buffer attached in update() the chain input is the buffer
\* content only, with none attached no buffer is read or zeroed.
C3_NeverRawAndFlush ==
    /\ ~(RawFed /\ Flushed)
    /\ last.fn = "update" /\ last.attached =>
          last.chain_input = [val |-> last.buffer_before, src |-> {"buffer"}]
    /\ last.fn = "update" /\ ~last.attached =>
          /\ ~Flushed
          /\ "buffer" \notin last.chain_input.src
          /\ grad_buffer = last.buffer_before

C3_Witness ==
    /\ last.fn = "update"
    /\ last.attached
    /\ ~last.raised
    /\ last.buffer_before # 0
    /\ grad_buffer = 0

HasUnregistered(chain) == \E i \in 1..Len(chain) : chain[i] \notin OPTIMIZERS

AssignsVar(ops) == \E k \in 1..Len(ops) : ops[k].target = "var"

\* C12: a chain token that is not a registered optimizer makes update() fail
\* at that token: it is never skipped, and the call emits no assignment to
\* the variable's stored value.
C12_UnknownOptimizerIsFatal ==
    HasUnregistered(params.optimizer) =>
        /\ Update(Ctx("update")).raised
        /\ ~AssignsVar(Update(Ctx("update")).ops)
        /\ last.fn = "update" =>
              (last.raised /\ ~AssignsVar(update_ops) /\ value = 10)

\* C12 witness: an update step ran with the chain "sgd-bogus" and raised.
C12_Witness ==
    /\ HasUnregistered(params.optimizer)
    /\ last.fn = "update"
    /\ last.raised

\* C13: get_optimizer with multi_loss_strategy mgda and more than two loss
\* heads is rejected: it never returns update operations.
C13_MoreThanTwoHeadsRejected ==
    (strategy = "mgda" /\ Len(loss_list) > 2) => ~Returned

VarOps(ops) == SelectSeq(ops, LAMBDA o : o.target = "var")

\* The gradient the chain leaves for ctx, with the rezero multiplier.
ChainGradient(ctx) ==
    LET g == Chain(ctx.params.optimizer, FlushBuffer(ctx).grad.val,
                   ctx.opt_state, ctx.params.learning_rate).grad
    IN  IF "rezero" \in ctx.var.name
        THEN ctx.params.rezero_lr_multiplier * g ELSE g

DecayTerm(ctx) == ctx.params.weight_decay * ctx.params.learning_rate * ctx.value

PlainUpdate(ctx) ==
    /\ ~ctx.attached
    /\ ~HasUnregistered(ctx.params.optimizer)
    /\ ~LargeTensor(ctx.params, ctx.var) \/ ~ctx.params.weight_standardisation

ScenarioA(ctx) ==
    /\ ctx.params.optimizer = <<"sgd">>
    /\ ctx.params.weight_decay = 0
    /\ ctx.params.learning_rate = 1
    /\ ~ctx.attached
    /\ "rezero" \notin ctx.var.name
    /\ ctx.value = 10
    /\ ctx.grad.val = 1

Decays(ctx) == LargeTensor(ctx.params, ctx.var) /\ ctx.params.weight_decay > 0

\* C15: update() adds weight_decay * learning_rate * value to the gradient
\* if and only if the variable is large and weight_decay > 0, and adds it
\* to what the whole chain returned: no optimizer transforms the term.
C15_DecayAfterChainIffLarge ==
    LET ctx  == Ctx("update")
        ops  == VarOps(Update(ctx).ops)
        base == ChainGradient(ctx)
        G    == IF Decays(ctx) THEN base + DecayTerm(ctx) ELSE base
    IN  ~HasUnregistered(params.optimizer) =>
           /\ Len(ops) = 1
           /\ ops[1].val = (IF ~LargeTensor(params, var) \/ ~params.weight_standardisation
                            THEN G
                            ELSE Standardise(value - G, var.target_std))
           /\ ~Decays(ctx) /\ ops[1].kind = "assign_sub" => ops[1].val = base

\* C15 witness: a large variable was updated with decay on, chain sgd at
\* learning rate 2: 10 - (2 * 1 + 1 * 2 * 10).
C15_Witness ==
    /\ LargeTensor(params, var) /\ params.weight_decay = 1
    /\ ~params.weight_standardisation
    /\ params.optimizer = <<"sgd">> /\ params.learning_rate = 2
    /\ grad = 1
    /\ fns = <<"update">>
    /\ ~last.attached
    /\ value = 0 - 12

Standardises(ctx) ==
    /\ LargeTensor(ctx.params, ctx.var)
    /\ ctx.params.weight_standardisation
    /\ ~HasUnregistered(ctx.params.optimizer)

\* The gradient update() subtracts, decay included, is zero and the mean
\* square of the value is the target variance.
AtFixedPoint(ctx) ==
    /\ ChainGradient(ctx) + (IF Decays(ctx) THEN DecayTerm(ctx) ELSE 0) = 0
    /\ Abs(ctx.value) = ctx.var.target_std

C19_GammaIsFinite == GammaDone => IsFinite(gamma)

\* Display names, by the substrings of lines 45-54 they contain.
DisplayNames == {{}, {"rezero"}, {"embed"}, {"input"}, {"input", "lang_in"}, {"output"}}

\* C20: the update operations of a variable depend on its shape and role
\* flags only: a variable that differs from var in nothing but its name
\* gets the same update operations.
C20_UpdateIgnoresName ==
    \A n \in DisplayNames :
        Update([Ctx("update") EXCEPT !.var.name = n]).ops = Update(Ctx("update")).ops

\* C21: every fn other than the exact string "accumulate" is the update
\* mode: the operations emitted for a yielded variable, and whether the
\* buffer is attached, are those of fn = "update", and the call returns.
C21_OtherFnIsUpdate ==
    /\ \A f \in FnStrings \ {"accumulate"} : \A t \in trainable :
          /\ BufferAttached(f, buffer_exists, lookup_hits)
                = BufferAttached("update", buffer_exists, lookup_hits)
          /\ Emit(f, t, loss_idx,
                  BufferAttached(f, buffer_exists, lookup_hits), params, var)
                = Emit("update", t, loss_idx,
                       BufferAttached("update", buffer_exists, lookup_hits), params, var)
    /\ (Returned /\ fn # "accumulate") =>
          \A k \in 1..Len(update_ops) : update_ops[k].kind # "assign_add"

\* C21 witness: a call with fn = "oijhiojio" returned assignments of the
\* value of a variable, with the buffer attached and zeroed.
C21_Witness ==
    /\ Returned
    /\ fn = "oijhiojio"
    /\ \E k \in 1..Len(update_ops) : update_ops[k].target = "var"
    /\ \E k \in 1..Len(update_ops) :
          update_ops[k].target = "grad_buffer" /\ update_ops[k].kind = "assign"

\* The tensors one application of the rule adds to d.
RuleAdds(ops, d) ==
    UNION {SeqToSet(ops[i].outputs) :
             i \in {j \in 1..Len(ops) :
                      ops[j].has_gradient /\ SeqToSet(ops[j].inputs) \cap d # {}}}

\* The least set that holds xs and is closed under the rule.
RECURSIVE RuleClosure(_, _)
RuleClosure(ops, d) ==
    IF RuleAdds(ops, d) \subseteq d THEN d
    ELSE RuleClosure(ops, d \cup RuleAdds(ops, d))

\* The forward scan of the current loss head has just run.
ScanJustRan == opc = "reverse" /\ pos = Len(operations)

\* C22: after the forward scan a tensor is in the downstream set iff it is
\* the output of a trainable variable or an output of a gradient-capable
\* operation with an input in the set; the set is computed from the
\* trainable variables for each loss head, and a second scan adds nothing.
C22_DownstreamIsRuleClosure ==
    ScanJustRan =>
        /\ downstream = RuleClosure(operations, trainable)
        /\ \A t \in downstream :
              \/ t \in trainable
              \/ /\ Producer(operations, t).has_gradient
                 /\ SeqToSet(Producer(operations, t).inputs) \cap downstream # {}
        /\ Scan(operations, 1, downstream) = downstream

\* C22 witness: the scan of the second loss head ran, over a graph that the
\* first traversal extended; some tensors are downstream, others are not.
C22_Witness ==
    /\ ScanJustRan
    /\ loss_idx = 1
    /\ downstream \ trainable # {}
    /\ AllOutputs(operations) \ downstream # {}
    /\ \E i \in 1..Len(operations) : operations[i].kind = "gradient"

\* A step of the reverse traversal: the operation at pos is visited.
VisitStep == opc = "reverse" /\ pos >= 1 /\ pos' = pos - 1

\* The gradient rule of the visited operation ran: it made operations.
RuleInvoked == Len(operations') > Len(operations)

RuleDue ==
    LET op == operations[pos]
    IN  /\ op.has_gradient
        /\ \E k \in 1..Len(op.outputs) : op.outputs[k] \in DOMAIN tensor_to_gradient
        /\ SeqToSet(op.inputs) \cap downstream # {}

\* C23: the gradient rule of a visited operation is invoked iff the
\* operation is gradient-capable, an output has a recorded gradient and an
\* input is downstream; a skipped operation adds no entry and no
\* contribution; an output without an entry is passed as None.
C23_RuleInvokedIffDue ==
    [][VisitStep =>
         LET op == operations[pos]
             go == CollectGradOutputs(op.outputs, 1, tensor_to_gradient,
                                      operations).grad_outputs
         IN  /\ RuleInvoked <=> RuleDue
             /\ ~RuleInvoked =>
                   \A t \in DOMAIN tensor_to_gradient' :
                      /\ t \in DOMAIN tensor_to_gradient
                      /\ tensor_to_gradient'[t].contrib = tensor_to_gradient[t].contrib
                      /\ tensor_to_gradient'[t].grad = tensor_to_gradient[t].grad
             /\ \A k \in 1..Len(op.outputs) :
                   (go[k] = None) <=> (op.outputs[k] \notin DOMAIN tensor_to_gradient)
    ]_vars

\* C23 witness: the operation with the outputs 6 and 7 was visited with a
\* gradient for 6 and None for 7, and its rule recorded a gradient for 4.
C23_Witness ==
    /\ opc = "reverse"
    /\ loss = 8
    /\ pos + 1 <= Len(operations)
    /\ operations[pos + 1].outputs = <<6, 7>>
    /\ 4 \in DOMAIN tensor_to_gradient
    /\ 7 \notin DOMAIN tensor_to_gradient

\* The index in operations of the operation that makes tensor t.
ProducerIndex(ops, t) == CHOOSE i \in 1..Len(ops) : t \in SeqToSet(ops[i].outputs)

\* C24: once the reverse traversal has visited the operation that makes a
\* tensor, tensor_to_gradient holds no entry for the tensor; at the end of
\* a traversal it holds no entry of a tensor whose producer was visited.
C24_VisitedProducerHasNoEntry ==
    opc = "reverse" =>
        \A t \in DOMAIN tensor_to_gradient : ProducerIndex(operations, t) <= pos

\* The operations of operations[::-1] in the current traversal: those up
\* to the seed gradient, the last constant made.
SnapshotLen ==
    CHOOSE i \in 1..Len(operations) :
        /\ operations[i].kind = "constant"
        /\ \A j \in (i + 1)..Len(operations) : operations[j].kind # "constant"

\* The entry of t is new or has changed in this step.
EntryWritten(t) ==
    \/ t \notin DOMAIN tensor_to_gradient
    \/ tensor_to_gradient'[t].contrib # tensor_to_gradient[t].contrib
    \/ tensor_to_gradient'[t].grad # tensor_to_gradient[t].grad

ZeroesBuffer(ops) ==
    \E k \in 1..Len(ops) :
        ops[k].target = "grad_buffer" /\ ops[k].kind = "assign" /\ ops[k].val = 0

\* C26: an update() call that returns emits exactly one assignment to the
\* stored value: assign_sub when the variable is not large or weight
\* standardisation is off, assign otherwise; it zeroes the accumulation
\* buffer iff a buffer was attached.
C26_ExactlyOneValueAssignment ==
    \A att \in BOOLEAN :
        LET ctx == [Ctx("update") EXCEPT !.attached = att]
            u   == Update(ctx)
        IN  ~u.raised =>
              /\ Len(VarOps(u.ops)) = 1
              /\ VarOps(u.ops)[1].kind =
                    (IF ~LargeTensor(params, var) \/ ~params.weight_standardisation
                     THEN "assign_sub" ELSE "assign")
              /\ ZeroesBuffer(u.ops) <=> att

\* C26 witness: an update step with the buffer attached returned one
\* assignment of the value and the zeroing of the buffer.
C26_Witness ==
    /\ last.fn = "update" /\ last.attached /\ ~last.raised
    /\ Len(VarOps(update_ops)) = 1
    /\ ZeroesBuffer(update_ops)
    /\ LargeTensor(params, var) /\ params.weight_standardisation

\* C27: the reverse traversal of a loss head visits the operations in the
\* graph when it starts, each once, last to first; the operations appended
\* during the pass are after them and are not visited.
C27_VisitsSnapshotInReverse ==
    [][/\ (opc = "loop" /\ opc' = "reverse") =>
             (pos' = SnapshotLen' /\ SnapshotLen' = Len(operations'))
       /\ VisitStep =>
             /\ pos <= SnapshotLen
             /\ SnapshotLen' = SnapshotLen
             /\ SubSeq(operations', 1, Len(operations)) = operations
       /\ (opc = "reverse" /\ pos' # pos) => pos' = pos - 1
       /\ (opc = "reverse" /\ opc' = "loop") => pos = 0
    ]_vars

\* C27 witness: the traversal of the second loss head is over; its
\* snapshot held the operations the first traversal made, and it left
\* operations of its own after the snapshot.
C27_Witness ==
    /\ opc = "reverse"
    /\ pos = 0
    /\ loss_idx = 1
    /\ Len(operations) > SnapshotLen
    /\ \E j \in 1..SnapshotLen : operations[j].kind = "gradient"

(***************************************************************************)
(* SpecCapture.  train.py, class CapturedObject, lines 40-63.              *)
(***************************************************************************)
CoreIdle == GammaIdle /\ StepIdle /\ OptIdle /\ SchedIdle /\ VarianceIdle

coreVars == <<gammaVars, stepVars, optVars, schedVars, varianceVars>>

\* The objects captured in train.py (lines 531-541).
Objects == {"hooks", "dtypes_shapes"}

\* CapturedObject.__init__, lines 45-47.
CaptureInit ==
    /\ CoreIdle /\ SplitIdle /\ SkipIdle
    /\ _object = None
    /\ _captured = FALSE
    /\ calls = <<>>

\* Mutant of Capture: a later capture replaces the object.
CaptureOverwrites ==
    /\ Len(calls) < MaxCalls
    /\ \E o \in Objects :
          /\ _captured' = TRUE
          /\ _object' = o
          /\ calls' = Append(calls, [op |-> "capture", arg |-> o,
                                     raised |-> FALSE, returned |-> None])
    /\ UNCHANGED <<coreVars, splitVars, skipVars>>

\* CapturedObject.capture, lines 49-55.
Capture ==
    /\ Len(calls) < MaxCalls
    /\ \E o \in Objects :
          IF _captured
          THEN /\ calls' = Append(calls, [op |-> "capture", arg |-> o,
                                          raised |-> TRUE, returned |-> None])
               /\ UNCHANGED <<_object, _captured>>
          ELSE /\ _captured' = TRUE
               /\ _object' = o
               /\ calls' = Append(calls, [op |-> "capture", arg |-> o,
                                          raised |-> FALSE, returned |-> None])
    /\ UNCHANGED <<coreVars, splitVars, skipVars>>

\* CapturedObject.get, lines 57-62.
Get ==
    /\ Len(calls) < MaxCalls
    /\ calls' = Append(calls, [op |-> "get", arg |-> None,
                               raised |-> ~_captured,
                               returned |-> IF _captured THEN _object ELSE None])
    /\ UNCHANGED <<_object, _captured>>
    /\ UNCHANGED <<coreVars, splitVars, skipVars>>

CaptureNext == Capture \/ Get

SpecCapture == CaptureInit /\ [][CaptureNext]_vars

(***************************************************************************)
(* Claims about CapturedObject (SpecCapture).                              *)
(***************************************************************************)
CapturesBefore(i) == {j \in 1..(i - 1) : calls[j].op = "capture"}

\* The first capture among the calls before call i.
FirstCapture(i) ==
    CHOOSE j \in CapturesBefore(i) : \A k \in CapturesBefore(i) : j <= k

\* C28: the first capture stores its argument; every later capture raises
\* and leaves the object as it is; get before any capture raises; get after
\* a capture returns the object of the first capture.
C28_CapturedAtMostOnce ==
    /\ \A i \in 1..Len(calls) :
          /\ calls[i].op = "capture" =>
                (calls[i].raised <=> CapturesBefore(i) # {})
          /\ calls[i].op = "get" =>
                /\ calls[i].raised <=> CapturesBefore(i) = {}
                /\ ~calls[i].raised => calls[i].returned = calls[FirstCapture(i)].arg
    /\ _captured <=> CapturesBefore(Len(calls) + 1) # {}
    /\ _captured => _object = calls[FirstCapture(Len(calls) + 1)].arg

\* C28 witness: a capture, a second capture of another object that raised,
\* and a get that returned the first object.
C28_Witness ==
    /\ Len(calls) >= 3
    /\ calls[1].op = "capture" /\ ~calls[1].raised
    /\ calls[2].op = "capture" /\ calls[2].raised /\ calls[2].arg # calls[1].arg
    /\ calls[3].op = "get" /\ calls[3].returned = calls[1].arg

(***************************************************************************)
(* SpecSplit.  inputs.py, split_files, lines 15-23.  File names are        *)
(* numbers, sorted as numbers.                                             *)
(***************************************************************************)
\* sorted(filenames), line 19.
RECURSIVE Sorted(_)
Sorted(S) ==
    IF S = {} THEN <<>>
    ELSE LET m == CHOOSE x \in S : \A y \in S : x <= y
         IN  <<m>> \o Sorted(S \ {m})

\* The orders random.shuffle can leave the files in.
Orders(S) ==
    {p \in [1..Cardinality(S) -> S] :
        \A a, b \in 1..Cardinality(S) : a # b => p[a] # p[b]}

\* Number of elements of files[i::k].
StrideLen(files, i, k) ==
    IF Len(files) <= i THEN 0 ELSE (Len(files) - i + k - 1) \div k

\* Mutant of Stride: the slice starts one stride later, files[i + k::k].
StrideFromSecond(files, i, k) ==
    [j \in 1..StrideLen(files, i + k, k) |-> files[i + k + 1 + (j - 1) * k]]

\* files[slice_index::slice_count], line 23.
Stride(files, i, k) ==
    [j \in 1..StrideLen(files, i, k) |-> files[i + 1 + (j - 1) * k]]

\* The files of one path, a seed and a slice count; under a seed other than
\* 0 the shuffle leaves one fixed order for every call (lines 20-22).
SplitInit ==
    /\ CoreIdle /\ CaptureIdle /\ SkipIdle
    /\ filenames \in SUBSET (1..MaxFiles)
    /\ seed \in {0, 1}
    /\ slice_count \in 1..MaxSlices
    /\ shuffled \in (IF seed = 0 THEN {Sorted(filenames)} ELSE Orders(filenames))
    /\ slices = <<>>
    /\ split_raised = FALSE

\* split_files(path, slice_index, slice_count, seed), lines 15-23.
SplitFiles ==
    /\ ~split_raised
    /\ \E slice_index \in (0..(slice_count - 1)) \ DOMAIN slices :
          IF filenames = {}
          THEN /\ split_raised' = TRUE
               /\ UNCHANGED slices
          ELSE /\ slices' = Put(slices, slice_index,
                                Stride(IF seed # 0 THEN shuffled ELSE Sorted(filenames),
                                       slice_index, slice_count))
               /\ UNCHANGED split_raised
    /\ UNCHANGED <<filenames, seed, slice_count, shuffled>>
    /\ UNCHANGED <<coreVars, captureVars, skipVars>>

SplitNext == SplitFiles

SpecSplit == SplitInit /\ [][SplitNext]_vars

(***************************************************************************)
(* Claims about split_files (SpecSplit).                                   *)
(***************************************************************************)
AllSlicesCalled == DOMAIN slices = 0..(slice_count - 1)

\* The places (slice, position) at which file f was returned.
PlacesOf(f) ==
    {q \in (DOMAIN slices) \X (1..MaxFiles + 1) :
        q[2] <= Len(slices[q[1]]) /\ slices[q[1]][q[2]] = f}

\* C29: for one file set, seed and slice_count k the lists returned for
\* slice_index 0..k-1 partition the files matched: every file is in exactly
\* one slice, once; the sizes differ by at most one; with seed 0 the order
\* is the sorted order; an empty match raises ValueError.
C29_SlicesPartitionFiles ==
    /\ AllSlicesCalled /\ filenames # {} =>
          /\ \A f \in filenames : Cardinality(PlacesOf(f)) = 1
          /\ \A i \in DOMAIN slices : SeqToSet(slices[i]) \subseteq filenames
          /\ \A i, j \in DOMAIN slices : Len(slices[i]) - Len(slices[j]) <= 1
    /\ seed = 0 =>
          \A i \in DOMAIN slices : \A a, b \in 1..Len(slices[i]) :
              a < b => slices[i][a] < slices[i][b]
    /\ split_raised => filenames = {}
    /\ filenames = {} => DOMAIN slices = {}

\* C29 witness: four files were split into three slices under a seed that
\* shuffles them out of sorted order.
C29_Witness ==
    /\ AllSlicesCalled
    /\ slice_count = 3
    /\ Cardinality(filenames) = 4
    /\ seed # 0
    /\ shuffled # Sorted(filenames)
    /\ Len(slices[0]) = 2

(***************************************************************************)
(* SpecSkip, SpecSkipFair.  inputs.py, _get_skip_index, lines 386-406.     *)
(* A file is a record: hasCount says whether its name ends in              *)
(* _<n>.tfrecords, docs is <n> for such a file and the number of records   *)
(* stored in it otherwise.                                                 *)
(***************************************************************************)
\* None (line 389) and the unbound skip_idx and remainder.
NoCount == -1

Files == [hasCount : BOOLEAN, docs : 0..MaxDocs]

\* _get_number_of_documents(filename), lines 368-372.
_get_number_of_documents(f) == IF f.hasCount THEN f.docs ELSE NoCount

\* _get_number_of_documents_by_iteration(filename), lines 375-383.
_get_number_of_documents_by_iteration(f) == f.docs

\* Lines 387-389, entering the loop over a non-empty list.
SkipInit ==
    /\ CoreIdle /\ CaptureIdle /\ SplitIdle
    /\ all_files \in UNION {[1..n -> Files] : n \in 1..MaxList}
    /\ n_batches \in 0..MaxBatches
    /\ count = 0
    /\ prev_cumsum = 0
    /\ cumsum = 0
    /\ global_n_documents = NoCount
    /\ skip_idx = NoCount
    /\ remainder = NoCount
    /\ kpc = "loop"

\* What lines 392-398 add to cumsum for file f while global_n_documents is g.
Added(f, g) ==
    IF _get_number_of_documents(f) # NoCount THEN _get_number_of_documents(f)
    ELSE IF g = NoCount THEN _get_number_of_documents_by_iteration(f)
    ELSE g

\* One iteration of the loop of line 390, lines 391-405, and the return of
\* line 406 after the break.
Iterate ==
    /\ kpc = "loop"
    /\ LET f == all_files[count + 1]
           c == cumsum + Added(f, global_n_documents)
       IN  /\ prev_cumsum' = cumsum
           /\ cumsum' = c
           /\ global_n_documents' =
                 IF _get_number_of_documents(f) = NoCount /\ global_n_documents = NoCount
                 THEN _get_number_of_documents_by_iteration(f)
                 ELSE global_n_documents
           /\ IF c = n_batches
              THEN /\ remainder' = 0
                   /\ skip_idx' = count + 1
                   /\ count' = (count + 1) % Len(all_files)
                   /\ UNCHANGED kpc
              ELSE IF c > n_batches
              THEN /\ remainder' = n_batches - cumsum
                   /\ skip_idx' = count
                   /\ kpc' = "returned"
                   /\ UNCHANGED count
              ELSE /\ count' = (count + 1) % Len(all_files)
                   /\ UNCHANGED <<remainder, skip_idx, kpc>>
    /\ UNCHANGED <<all_files, n_batches>>
    /\ UNCHANGED <<coreVars, captureVars, splitVars>>

SkipNext == Iterate

SpecSkip == SkipInit /\ [][SkipNext]_vars

\* The loop is straight-line code: an iteration that can run does run.
SpecSkipFair == SpecSkip /\ WF_vars(Iterate)

(***************************************************************************)
(* Claims about _get_skip_index (SpecSkipFair).                            *)
(***************************************************************************)
RECURSIVE DocsBefore(_)
\* The documents of the first k files of all_files.
DocsBefore(k) == IF k = 0 THEN 0 ELSE DocsBefore(k - 1) + all_files[k].docs

HasPositiveCount == \E k \in 1..Len(all_files) : all_files[k].docs > 0

\* The pair returned names the file and the offset at which document
\* n_batches lies, counting whole cycles over the list.
Located ==
    /\ skip_idx \in 0..(Len(all_files) - 1)
    /\ remainder >= 0
    /\ remainder < all_files[skip_idx + 1].docs
    /\ \E cycles \in 0..MaxBatches :
          remainder + cycles * DocsBefore(Len(all_files)) + DocsBefore(skip_idx)
             = n_batches

=============================================================================
